---- MODULE Spec2Model ----
(***************************************************************************)
(* SimpliSafe integration: the binary sensors of binary_sensor.py and the  *)
(* camera entity of camera.py.                                             *)
(*                                                                         *)
(* Six specifications share this module, one per part of the integration;  *)
(* each leaves the other parts at rest.                                    *)
(*   Spec         the transient (motion / doorbell) sensors on the host's  *)
(*                single-threaded event loop: every handler is a           *)
(*                @callback, so each runs to completion as one action.     *)
(*   SpecCamera   one camera entity's still image; async_device_image      *)
(*                suspends at its await, so a call is two steps and calls  *)
(*                may overlap.                                             *)
(*   SpecStream   handle_async_mjpeg_stream and its try/finally.           *)
(*   SpecPass     the triggered and low-battery sensors.                   *)
(*   SpecSetup    async_setup_entry of both platforms.                     *)
(*   SpecOnState  the camera entity's is_on.                               *)
(***************************************************************************)
EXTENDS Integers, Sequences, FiniteSets, TLC

VARIABLES
    \* ---- transient sensors (binary_sensor.py) ----
    is_on,        \* [Sensors -> BOOLEAN]  _attr_is_on of each entity
    timers,       \* [Sensors -> Seq(Nat)] due times of the clear callbacks the
                  \*   host loop holds for the entity (async_call_later handles)
    ha_state,     \* [Sensors -> BOOLEAN]  state last written to the host
    exc,          \* [Sensors -> STRING]   how the last event dispatch ended
    handled,      \* [Sensors -> Nat]      push events dispatched to the entity
    fired,        \* [Sensors -> Nat]      clear callbacks of the entity that ran
    last_event,   \* [Sensors -> Int]      time of the last dispatched event
    armed_at,     \* [Sensors -> Int]      time of the last event dispatched
                  \*   while the entity had no clear timer pending
    read_value,   \* [Sensors -> BOOLEAN]  what the last read of is_on returned
    last_op,      \* <<kind, sensor>>      the operation that ran last
    now,          \* the host loop's clock
    \* ---- camera (camera.py) ----
    system_state,            \* self._system.state
    shutter_open_when_off,   \* self._device.shutter_open_when_off
    shutter_open_when_home,  \* self._device.shutter_open_when_home
    shutter_open_when_away,  \* self._device.shutter_open_when_away
    _last_image,             \* self._last_image
    pc,           \* [Calls -> STRING] position of each async_device_image call
    ret,          \* [Calls -> image]  what the call returned
    shutter_seen, \* [Calls -> BOOLEAN] is_shutter_open as the call computed it
    got,          \* [Calls -> image]  what ffmpeg.get_image gave the call
    last_grab,    \* what the most recent get_image that returned gave
    \* ---- MJPEG stream (camera.py, handle_async_mjpeg_stream) ----
    s_pc,         \* [Streams -> STRING]  position of each invocation
    s_running,    \* [Streams -> BOOLEAN] the invocation's ffmpeg process runs
    s_opened,     \* [Streams -> BOOLEAN] open_camera started a process for it
    s_closes,     \* [Streams -> Nat]     stream.close() calls of the invocation
    s_how,        \* [Streams -> STRING]  how the body of the try ended
    \* ---- passthrough sensors (binary_sensor.py) ----
    dev_triggered,   \* [Devices -> BOOLEAN] sensor.triggered of each device record
    dev_low_battery, \* [Devices -> BOOLEAN] sensor.low_battery of each record
    t_is_on,      \* [Devices -> Seq(BOOLEAN)] _attr_is_on of the device's
                  \*   TriggeredBinarySensor: <<>> while unset, else <<value>>
    b_is_on,      \* [Devices -> Seq(BOOLEAN)] the same of its BatteryBinarySensor
    p_last,       \* <<kind, class, device>> the passthrough operation that ran last
    \* ---- entity setup (async_setup_entry of both files) ----
    sys_version,  \* [Systems -> {2, 3}]  system.version
    sys_sensors,  \* [Systems -> [serial -> type or "absent"]] system.sensors
    sys_cameras,  \* [Systems -> [serial -> type or "absent"]] system.cameras
    bs_added,     \* <<>> before binary_sensor setup ran, else <<entities>>:
                  \*   the list it handed to async_add_entities
    cam_added,    \* the same for camera setup
    \* ---- camera on-state (camera.py, is_on) ----
    dev_status,        \* [Cameras -> STRING]  self._device.status
    dev_subscription,  \* [Cameras -> BOOLEAN] self._device.subscription_enabled
    _is_online,        \* [Cameras -> BOOLEAN] self._is_online
    _is_subscribed,    \* [Cameras -> BOOLEAN] self._is_subscribed
    seen_status,       \* [Cameras -> STRING]  the record's status when the entity
                       \*   was constructed or last refreshed, whichever is later
    seen_subscription  \* [Cameras -> BOOLEAN] the same of subscription_enabled

sensorVars == <<is_on, timers, ha_state, exc, handled, fired, last_event, armed_at,
                read_value, last_op, now>>
cameraVars == <<system_state, shutter_open_when_off, shutter_open_when_home,
                shutter_open_when_away, _last_image, pc, ret, shutter_seen,
                got, last_grab>>
streamVars == <<s_pc, s_running, s_opened, s_closes, s_how>>
passVars == <<dev_triggered, dev_low_battery, t_is_on, b_is_on, p_last>>
setupVars == <<sys_version, sys_sensors, sys_cameras, bs_added, cam_added>>
onStateVars == <<dev_status, dev_subscription, _is_online, _is_subscribed,
                 seen_status, seen_subscription>>
vars == <<sensorVars, cameraVars, streamVars, passVars, setupVars, onStateVars>>

----------------------------------------------------------------------------
\* Bounds of the model.
MaxTime == 4      \* the clock runs 0..MaxTime
MaxEvents == 3    \* push events dispatched to one entity
MaxCalls == 2     \* async_device_image calls that may overlap
NumImages == 2    \* distinct frames the camera can deliver
MaxStreams == 2   \* handle_async_mjpeg_stream invocations that may overlap
NumDevices == 2   \* sensor devices that have passthrough entities
NumSystems == 2   \* systems of the account
NumCameras == 2   \* camera entities

\* The delay the clear is meant to be scheduled with.  binary_sensor.py names
\* it MOTION_SENSOR_TRIGGER_CLEAR and never defines it; the spec calls it
\* CLEAR_DELAY, "a configuration constant owned by the external collaborator".
CLEAR_DELAY == 2

----------------------------------------------------------------------------
\* binary_sensor.py

\* CameraMotionBinarySensor and CameraDoorbellBinarySensor: two classes with
\* the same fields and the same two update hooks.
Sensors == {"motion", "doorbell"}

\* The names bound in binary_sensor.py's module namespace: its imports
\* (lines 4-20), its two tables and its definitions.  A name a function body
\* loads that is neither here nor a builtin raises NameError when the line
\* that loads it runs.
ModuleGlobals ==
    { "annotations", "DeviceTypes", "Camera", "CameraTypes", "SensorV3",
      "SystemV3", "EVENT_DOORBELL_DETECTED", "EVENT_CAMERA_MOTION_DETECTED",
      "BinarySensorDeviceClass", "BinarySensorEntity", "ConfigEntry",
      "HomeAssistant", "callback", "EntityCategory", "AddEntitiesCallback",
      "SimpliSafe", "SimpliSafeEntity", "DOMAIN", "LOGGER",
      "SUPPORTED_BATTERY_SENSOR_TYPES", "TRIGGERED_SENSOR_TYPES",
      "async_setup_entry", "TriggeredBinarySensor", "BatteryBinarySensor",
      "CameraDoorbellBinarySensor", "CameraMotionBinarySensor" }

\* The call expression async_call_later(self.hass, MOTION_SENSOR_TRIGGER_CLEAR,
\* clear_delay_listener) loads these global names, callee first.
CallLaterLoads == <<"async_call_later", "MOTION_SENSOR_TRIGGER_CLEAR">>

\* Whether the call expression can be evaluated at all.
CallLaterResolves == \A i \in 1..Len(CallLaterLoads) : CallLaterLoads[i] \in ModuleGlobals

SensorInit ==
    /\ is_on = [s \in Sensors |-> FALSE]
    /\ timers = [s \in Sensors |-> <<>>]
    /\ ha_state = [s \in Sensors |-> FALSE]
    /\ exc = [s \in Sensors |-> "none"]
    /\ handled = [s \in Sensors |-> 0]
    /\ fired = [s \in Sensors |-> 0]
    /\ last_event = [s \in Sensors |-> -1]
    /\ armed_at = [s \in Sensors |-> -1]
    /\ read_value = [s \in Sensors |-> FALSE]
    /\ last_op = <<"init", "none">>
    /\ now = 0

\* A variant of the event hook that binds a local instead of the attribute:
\* the flag is left as it was.
event_hook_flag_not_set(s) ==
    /\ is_on' = is_on
    /\ IF CallLaterResolves
         THEN /\ timers' = [timers EXCEPT ![s] = Append(@, now + CLEAR_DELAY)]
              /\ exc' = [exc EXCEPT ![s] = "none"]
         ELSE /\ timers' = timers
              /\ exc' = [exc EXCEPT ![s] = "NameError"]

\* async_update_from_websocket_event(self, event): set the flag, define the
\* closure, then evaluate the async_call_later call.  When a name of the call
\* is unbound the call raises NameError: the flag is already set and nothing
\* has been scheduled.
async_update_from_websocket_event(s) ==
    /\ is_on' = [is_on EXCEPT ![s] = TRUE]
    /\ IF CallLaterResolves
         THEN /\ timers' = [timers EXCEPT ![s] = Append(@, now + CLEAR_DELAY)]
              /\ exc' = [exc EXCEPT ![s] = "none"]
         ELSE /\ timers' = timers
              /\ exc' = [exc EXCEPT ![s] = "NameError"]

\* async_write_ha_state(): the host records the entity's current is_on.
async_write_ha_state(s, value) == ha_state' = [ha_state EXCEPT ![s] = value]

\* The base entity's dispatch of a push event: run the entity's hook, then
\* write the state to the host.  An exception of the hook propagates, so the
\* write is not reached.
WebsocketEvent(s) ==
    /\ handled[s] < MaxEvents
    /\ async_update_from_websocket_event(s)
    /\ IF exc'[s] = "none"
         THEN async_write_ha_state(s, is_on'[s])
         ELSE ha_state' = ha_state
    /\ handled' = [handled EXCEPT ![s] = @ + 1]
    /\ last_event' = [last_event EXCEPT ![s] = now]
    /\ armed_at' = IF timers[s] = <<>> THEN [armed_at EXCEPT ![s] = now] ELSE armed_at
    /\ last_op' = <<"event", s>>
    /\ UNCHANGED <<fired, read_value, now, cameraVars, streamVars, passVars, setupVars, onStateVars>>

\* clear_delay_listener(now): the closure the event hook hands to
\* async_call_later.  It runs when a timer of the entity is due.  It is no
\* disjunct of SensorNext: the loop runs only callbacks that were registered,
\* and timers[s] is never extended (CallLaterResolves is FALSE).
clear_delay_listener(s) ==
    /\ timers[s] # <<>>
    /\ \E i \in 1..Len(timers[s]) :
          /\ timers[s][i] <= now
          /\ timers' = [timers EXCEPT ![s] =
                          SubSeq(@, 1, i - 1) \o SubSeq(@, i + 1, Len(@))]
    /\ is_on' = [is_on EXCEPT ![s] = FALSE]
    /\ async_write_ha_state(s, FALSE)
    /\ fired' = [fired EXCEPT ![s] = @ + 1]
    /\ last_op' = <<"clear", s>>
    /\ UNCHANGED <<exc, handled, last_event, armed_at, read_value, now, cameraVars, streamVars, passVars, setupVars, onStateVars>>

\* A variant of the REST hook that resets the flag, as a hook mirroring a
\* device field that reads False would.
rest_hook_resets_flag(s) ==
    /\ is_on' = [is_on EXCEPT ![s] = FALSE]
    /\ timers' = timers

\* async_update_from_rest_api(self): "No updates as camera sensor status
\* cannot be read via API": a bare return.
async_update_from_rest_api(s) ==
    /\ is_on' = is_on
    /\ timers' = timers

RestRefresh(s) ==
    /\ async_update_from_rest_api(s)
    /\ last_op' = <<"rest", s>>
    /\ UNCHANGED <<ha_state, exc, handled, fired, last_event, armed_at, read_value, now,
                   cameraVars, streamVars, passVars, setupVars, onStateVars>>

\* The entity's on-state as the host reads it: BinarySensorEntity.is_on
\* returns _attr_is_on.
ReadIsOn(s) ==
    /\ read_value' = [read_value EXCEPT ![s] = is_on[s]]
    /\ last_op' = <<"read", s>>
    /\ UNCHANGED <<is_on, timers, ha_state, exc, handled, fired, last_event, armed_at, now,
                   cameraVars, streamVars, passVars, setupVars, onStateVars>>

\* Time passes.  A due callback runs before the clock moves past it.
Tick ==
    /\ now < MaxTime
    /\ \A s \in Sensors : \A i \in 1..Len(timers[s]) : timers[s][i] > now
    /\ now' = now + 1
    /\ last_op' = <<"tick", "none">>
    /\ UNCHANGED <<is_on, timers, ha_state, exc, handled, fired, last_event, armed_at,
                   read_value, cameraVars, streamVars, passVars, setupVars, onStateVars>>

SensorNext ==
    \/ \E s \in Sensors : WebsocketEvent(s)
    \/ \E s \in Sensors : RestRefresh(s)
    \/ \E s \in Sensors : ReadIsOn(s)
    \/ Tick

----------------------------------------------------------------------------
\* camera.py

\* simplipy's SystemStates: the three the shutter flags are keyed on, and two
\* of the others (alarm, unknown) standing for every state is_shutter_open
\* does not name.
SystemStates == {"off", "home", "away", "alarm", "unknown"}

\* Images: None and NumImages distinct frames.
None == 0
Images == 1..NumImages

Calls == 1..MaxCalls

\* SimpliSafeCamera.__init__: nothing cached, no call running.  The arm state
\* and the shutter settings are whatever the system and the device record
\* hold.
CameraInit ==
    /\ system_state \in SystemStates
    /\ shutter_open_when_off \in BOOLEAN
    /\ shutter_open_when_home \in BOOLEAN
    /\ shutter_open_when_away \in BOOLEAN
    /\ _last_image = None
    /\ pc = [c \in Calls |-> "idle"]
    /\ ret = [c \in Calls |-> None]
    /\ shutter_seen = [c \in Calls |-> TRUE]
    /\ got = [c \in Calls |-> None]
    /\ last_grab = None

\* A variant of is_shutter_open that treats an unnamed arm state as closed.
shutter_default_closed ==
    IF system_state = "off" THEN shutter_open_when_off
    ELSE IF system_state = "home" THEN shutter_open_when_home
    ELSE IF system_state = "away" THEN shutter_open_when_away
    ELSE FALSE

\* SimpliSafeCamera.is_shutter_open
is_shutter_open ==
    IF system_state = "off" THEN shutter_open_when_off
    ELSE IF system_state = "home" THEN shutter_open_when_home
    ELSE IF system_state = "away" THEN shutter_open_when_away
    ELSE TRUE

\* A variant of the call whose closed-shutter path returns None instead of
\* the cached image.
device_image_call_drops_cache(c) ==
    /\ pc[c] = "idle"
    /\ shutter_seen' = [shutter_seen EXCEPT ![c] = is_shutter_open]
    /\ IF ~is_shutter_open
         THEN /\ ret' = [ret EXCEPT ![c] = None]
              /\ pc' = [pc EXCEPT ![c] = "returned"]
         ELSE /\ ret' = [ret EXCEPT ![c] = None]
              /\ pc' = [pc EXCEPT ![c] = "grabbing"]
    /\ got' = [got EXCEPT ![c] = None]
    /\ UNCHANGED <<_last_image, last_grab>>

\* async_device_image up to its first suspension.  Shutter closed: return
\* self._last_image.  Otherwise build the ImageFrame and await get_image
\* (self._video_url is the result of str.format, never None, so the early
\* return of line 110 is not taken).
async_device_image_call(c) ==
    /\ pc[c] = "idle"
    /\ shutter_seen' = [shutter_seen EXCEPT ![c] = is_shutter_open]
    /\ IF ~is_shutter_open
         THEN /\ ret' = [ret EXCEPT ![c] = _last_image]
              /\ pc' = [pc EXCEPT ![c] = "returned"]
         ELSE /\ ret' = [ret EXCEPT ![c] = None]
              /\ pc' = [pc EXCEPT ![c] = "grabbing"]
    /\ got' = [got EXCEPT ![c] = None]
    /\ UNCHANGED <<_last_image, last_grab>>

\* A variant of the resumption that returns the image without caching it.
device_image_resume_no_cache(c, image) ==
    /\ pc[c] = "grabbing"
    /\ _last_image' = _last_image
    /\ ret' = [ret EXCEPT ![c] = image]
    /\ pc' = [pc EXCEPT ![c] = "returned"]
    /\ got' = [got EXCEPT ![c] = image]
    /\ last_grab' = image
    /\ UNCHANGED shutter_seen

\* async_device_image resumed with the value get_image returned: store it in
\* self._last_image and return it.  get_image is typed Optional[bytes]: the
\* value is a frame, or None.
async_device_image_resume(c, image) ==
    /\ pc[c] = "grabbing"
    /\ _last_image' = image
    /\ ret' = [ret EXCEPT ![c] = image]
    /\ pc' = [pc EXCEPT ![c] = "returned"]
    /\ got' = [got EXCEPT ![c] = image]
    /\ last_grab' = image
    /\ UNCHANGED shutter_seen

\* async_device_image resumed with an exception (get_image raised, or the
\* awaiting task was cancelled): lines 118-119 do not run.
async_device_image_raise(c) ==
    /\ pc[c] = "grabbing"
    /\ pc' = [pc EXCEPT ![c] = "raised"]
    /\ UNCHANGED <<_last_image, ret, got, last_grab, shutter_seen>>

FetchCall(c) ==
    /\ async_device_image_call(c)
    /\ UNCHANGED <<system_state, shutter_open_when_off, shutter_open_when_home,
                   shutter_open_when_away, sensorVars, streamVars, passVars, setupVars, onStateVars>>

GrabReturns(c) ==
    /\ \E image \in Images \cup {None} : async_device_image_resume(c, image)
    /\ UNCHANGED <<system_state, shutter_open_when_off, shutter_open_when_home,
                   shutter_open_when_away, sensorVars, streamVars, passVars, setupVars, onStateVars>>

GrabRaises(c) ==
    /\ async_device_image_raise(c)
    /\ UNCHANGED <<system_state, shutter_open_when_off, shutter_open_when_home,
                   shutter_open_when_away, sensorVars, streamVars, passVars, setupVars, onStateVars>>

\* The caller has taken the call's result; the slot is free for a new call.
FetchDone(c) ==
    /\ pc[c] \in {"returned", "raised"}
    /\ pc' = [pc EXCEPT ![c] = "idle"]
    /\ ret' = [ret EXCEPT ![c] = None]
    /\ got' = [got EXCEPT ![c] = None]
    /\ shutter_seen' = [shutter_seen EXCEPT ![c] = TRUE]
    /\ UNCHANGED <<system_state, shutter_open_when_off, shutter_open_when_home,
                   shutter_open_when_away, _last_image, last_grab, sensorVars, streamVars, passVars, setupVars, onStateVars>>

\* The system is armed or disarmed.
ArmStateChange ==
    /\ \E st \in SystemStates : st # system_state /\ system_state' = st
    /\ UNCHANGED <<shutter_open_when_off, shutter_open_when_home,
                   shutter_open_when_away, _last_image, pc, ret, shutter_seen,
                   got, last_grab, sensorVars, streamVars, passVars, setupVars, onStateVars>>

\* The camera's shutter settings are changed on the device record.
ShutterSettingsChange ==
    /\ \E o, h, a \in BOOLEAN :
          /\ <<o, h, a>> # <<shutter_open_when_off, shutter_open_when_home,
                             shutter_open_when_away>>
          /\ shutter_open_when_off' = o
          /\ shutter_open_when_home' = h
          /\ shutter_open_when_away' = a
    /\ UNCHANGED <<system_state, _last_image, pc, ret, shutter_seen, got, last_grab,
                   sensorVars, streamVars, passVars, setupVars, onStateVars>>

CameraNext ==
    \/ \E c \in Calls : FetchCall(c)
    \/ \E c \in Calls : GrabReturns(c)
    \/ \E c \in Calls : GrabRaises(c)
    \/ \E c \in Calls : FetchDone(c)
    \/ ArmStateChange
    \/ ShutterSettingsChange

----------------------------------------------------------------------------
\* camera.py: handle_async_mjpeg_stream

Streams == 1..MaxStreams

StreamInit ==
    /\ s_pc = [i \in Streams |-> "idle"]
    /\ s_running = [i \in Streams |-> FALSE]
    /\ s_opened = [i \in Streams |-> FALSE]
    /\ s_closes = [i \in Streams |-> 0]
    /\ s_how = [i \in Streams |-> "none"]

\* Lines 123-131: self._video_url is never None; build the CameraMjpeg and
\* await stream.open_camera.
StreamCall(i) ==
    /\ s_pc[i] = "idle"
    /\ s_pc' = [s_pc EXCEPT ![i] = "opening"]
    /\ UNCHANGED <<s_running, s_opened, s_closes, s_how, sensorVars, cameraVars, passVars, setupVars, onStateVars>>

\* open_camera returns, with the process started or not; the try block is
\* entered and stream.get_reader is awaited.
OpenReturns(i) ==
    /\ s_pc[i] = "opening"
    /\ \E started \in BOOLEAN :
          /\ s_running' = [s_running EXCEPT ![i] = started]
          /\ s_opened' = [s_opened EXCEPT ![i] = started]
    /\ s_pc' = [s_pc EXCEPT ![i] = "reading"]
    /\ UNCHANGED <<s_closes, s_how, sensorVars, cameraVars, passVars, setupVars, onStateVars>>

\* open_camera raises: the await is before the try, the exception leaves the
\* handler; no process was opened.
OpenRaises(i) ==
    /\ s_pc[i] = "opening"
    /\ s_pc' = [s_pc EXCEPT ![i] = "raised"]
    /\ UNCHANGED <<s_running, s_opened, s_closes, s_how, sensorVars, cameraVars, passVars, setupVars, onStateVars>>

\* get_reader returns: async_aiohttp_proxy_stream is awaited.
ReaderReturns(i) ==
    /\ s_pc[i] = "reading"
    /\ s_pc' = [s_pc EXCEPT ![i] = "proxying"]
    /\ UNCHANGED <<s_running, s_opened, s_closes, s_how, sensorVars, cameraVars, passVars, setupVars, onStateVars>>

\* A variant of the end of the try body without the finally clause: close is
\* reached only when the body returns.
try_body_ends_no_finally(i, outcome) ==
    /\ s_how' = [s_how EXCEPT ![i] = outcome]
    /\ s_pc' = [s_pc EXCEPT ![i] = IF outcome = "error" THEN "raised" ELSE "closing"]

\* The body of the try ends, by return or by exception: control goes to the
\* finally clause (lines 141-142).
try_body_ends(i, outcome) ==
    /\ s_how' = [s_how EXCEPT ![i] = outcome]
    /\ s_pc' = [s_pc EXCEPT ![i] = "closing"]

\* get_reader raises inside the try.
ReaderRaises(i) ==
    /\ s_pc[i] = "reading"
    /\ try_body_ends(i, "error")
    /\ UNCHANGED <<s_running, s_opened, s_closes, sensorVars, cameraVars, passVars, setupVars, onStateVars>>

\* The proxy loop ends: the stream ran dry (normal), the client went away
\* (disconnect), or an exception came up mid-stream (error).
ProxyEnds(i) ==
    /\ s_pc[i] = "proxying"
    /\ \E outcome \in {"normal", "disconnect", "error"} : try_body_ends(i, outcome)
    /\ UNCHANGED <<s_running, s_opened, s_closes, sensorVars, cameraVars, passVars, setupVars, onStateVars>>

\* finally: await stream.close().  The process, if any, is stopped; then the
\* handler returns, or the pending exception goes on to the caller.
StreamClose(i) ==
    /\ s_pc[i] = "closing"
    /\ s_closes' = [s_closes EXCEPT ![i] = @ + 1]
    /\ s_running' = [s_running EXCEPT ![i] = FALSE]
    /\ s_pc' = [s_pc EXCEPT ![i] = IF s_how[i] = "error" THEN "raised" ELSE "returned"]
    /\ UNCHANGED <<s_opened, s_how, sensorVars, cameraVars, passVars, setupVars, onStateVars>>

\* The invocation is over; the slot is free for a new request.
StreamDone(i) ==
    /\ s_pc[i] \in {"returned", "raised"}
    /\ ~s_running[i]
    /\ s_pc' = [s_pc EXCEPT ![i] = "idle"]
    /\ s_opened' = [s_opened EXCEPT ![i] = FALSE]
    /\ s_closes' = [s_closes EXCEPT ![i] = 0]
    /\ s_how' = [s_how EXCEPT ![i] = "none"]
    /\ UNCHANGED <<s_running, sensorVars, cameraVars, passVars, setupVars, onStateVars>>

StreamNext ==
    \/ \E i \in Streams : StreamCall(i)
    \/ \E i \in Streams : OpenReturns(i)
    \/ \E i \in Streams : OpenRaises(i)
    \/ \E i \in Streams : ReaderReturns(i)
    \/ \E i \in Streams : ReaderRaises(i)
    \/ \E i \in Streams : ProxyEnds(i)
    \/ \E i \in Streams : StreamClose(i)
    \/ \E i \in Streams : StreamDone(i)

----------------------------------------------------------------------------
\* binary_sensor.py: TriggeredBinarySensor and BatteryBinarySensor

Devices == 1..NumDevices

\* Entities as constructed: _attr_is_on is not assigned before the first
\* refresh.  The device records hold whatever the vendor API reported.
PassInit ==
    /\ dev_triggered \in [Devices -> BOOLEAN]
    /\ dev_low_battery \in [Devices -> BOOLEAN]
    /\ t_is_on = [d \in Devices |-> <<>>]
    /\ b_is_on = [d \in Devices |-> <<>>]
    /\ p_last = <<"init", "none", 0>>

\* TriggeredBinarySensor.async_update_from_rest_api
triggered_update_from_rest_api(d) ==
    t_is_on' = [t_is_on EXCEPT ![d] = <<dev_triggered[d]>>]

\* A variant of the battery hook copied from the triggered one without
\* changing the field it reads.
battery_update_reads_triggered(d) ==
    b_is_on' = [b_is_on EXCEPT ![d] = <<dev_triggered[d]>>]

\* BatteryBinarySensor.async_update_from_rest_api
battery_update_from_rest_api(d) ==
    b_is_on' = [b_is_on EXCEPT ![d] = <<dev_low_battery[d]>>]

TriggeredRefresh(d) ==
    /\ triggered_update_from_rest_api(d)
    /\ p_last' = <<"rest", "triggered", d>>
    /\ UNCHANGED <<dev_triggered, dev_low_battery, b_is_on, sensorVars, cameraVars,
                   streamVars, setupVars, onStateVars>>

BatteryRefresh(d) ==
    /\ battery_update_from_rest_api(d)
    /\ p_last' = <<"rest", "battery", d>>
    /\ UNCHANGED <<dev_triggered, dev_low_battery, t_is_on, sensorVars, cameraVars,
                   streamVars, setupVars, onStateVars>>

\* The vendor API updates a device record: one of its two fields flips.
DeviceFieldChange(d) ==
    /\ \/ /\ dev_triggered' = [dev_triggered EXCEPT ![d] = ~@]
          /\ UNCHANGED dev_low_battery
       \/ /\ dev_low_battery' = [dev_low_battery EXCEPT ![d] = ~@]
          /\ UNCHANGED dev_triggered
    /\ p_last' = <<"device", "none", d>>
    /\ UNCHANGED <<t_is_on, b_is_on, sensorVars, cameraVars, streamVars, setupVars, onStateVars>>

PassNext ==
    \/ \E d \in Devices : TriggeredRefresh(d)
    \/ \E d \in Devices : BatteryRefresh(d)
    \/ \E d \in Devices : DeviceFieldChange(d)

\* The passthrough sensors with every device record reading False, as the
\* specifications that leave them alone start them.
PassAtRest ==
    /\ PassInit
    /\ dev_triggered = [d \in Devices |-> FALSE]
    /\ dev_low_battery = [d \in Devices |-> FALSE]

----------------------------------------------------------------------------
\* async_setup_entry of binary_sensor.py and of camera.py

Systems == 1..NumSystems

\* SUPPORTED_BATTERY_SENSOR_TYPES
SUPPORTED_BATTERY_SENSOR_TYPES ==
    { "carbon_monoxide", "entry", "glass_break", "keypad", "leak", "lock_keypad",
      "motion", "siren", "smoke", "temperature" }

\* TRIGGERED_SENSOR_TYPES: device type -> device class
TRIGGERED_SENSOR_TYPES ==
    [ty \in { "carbon_monoxide", "entry", "glass_break", "leak", "motion", "siren",
              "smoke" } |->
        CASE ty = "carbon_monoxide" -> "gas"
          [] ty = "entry" -> "door"
          [] ty = "glass_break" -> "safety"
          [] ty = "leak" -> "moisture"
          [] ty = "motion" -> "motion"
          [] ty = "siren" -> "safety"
          [] ty = "smoke" -> "smoke"]

\* The serials a system's sensors and cameras dicts may hold, in iteration
\* order, and the device types the model draws for them: a sensor type of
\* both tables, one of the battery table only, one of neither; a plain
\* camera and a doorbell.  "absent": the dict has no such key.
SensorSerials == <<"s1">>
CameraSerials == <<"c1", "c2">>
SensorTypeChoices == {"entry", "keypad", "remote"}
CameraTypeChoices == {"camera", "doorbell"}

Range(f) == {f[x] : x \in DOMAIN f}

SetupInit ==
    /\ sys_version \in [Systems -> {2, 3}]
    /\ sys_sensors \in [Systems -> [Range(SensorSerials) -> SensorTypeChoices \cup {"absent"}]]
    /\ sys_cameras \in [Systems -> [Range(CameraSerials) -> CameraTypeChoices \cup {"absent"}]]
    /\ bs_added = <<>>
    /\ cam_added = <<>>

Entity(cls, sy, serial) == [cls |-> cls, system |-> sy, device |-> serial]

\* A variant of the sensor loop with elif for the battery test: a sensor of
\* both tables gets the triggered entity only.
RECURSIVE SensorLoopElif(_, _)
SensorLoopElif(sy, k) ==
    IF k > Len(SensorSerials) THEN <<>>
    ELSE LET ty == sys_sensors[sy][SensorSerials[k]]
             own == IF ty = "absent" THEN <<>>
                    ELSE IF ty \in DOMAIN TRIGGERED_SENSOR_TYPES
                           THEN <<Entity("TriggeredBinarySensor", sy, SensorSerials[k])>>
                    ELSE IF ty \in SUPPORTED_BATTERY_SENSOR_TYPES
                           THEN <<Entity("BatteryBinarySensor", sy, SensorSerials[k])>>
                    ELSE <<>>
         IN  own \o SensorLoopElif(sy, k + 1)

\* binary_sensor.py lines 59-70: for sensor in system.sensors.values(), from
\* the k-th on.
RECURSIVE SensorLoop(_, _)
SensorLoop(sy, k) ==
    IF k > Len(SensorSerials) THEN <<>>
    ELSE LET ty == sys_sensors[sy][SensorSerials[k]]
             own == IF ty = "absent" THEN <<>>
                    ELSE (IF ty \in DOMAIN TRIGGERED_SENSOR_TYPES
                            THEN <<Entity("TriggeredBinarySensor", sy, SensorSerials[k])>>
                            ELSE <<>>)
                         \o
                         (IF ty \in SUPPORTED_BATTERY_SENSOR_TYPES
                            THEN <<Entity("BatteryBinarySensor", sy, SensorSerials[k])>>
                            ELSE <<>>)
         IN  own \o SensorLoop(sy, k + 1)

\* A variant of the camera loop that creates the motion sensor only in the
\* else branch of the doorbell test.
RECURSIVE CameraSensorLoopElse(_, _)
CameraSensorLoopElse(sy, k) ==
    IF k > Len(CameraSerials) THEN <<>>
    ELSE LET ty == sys_cameras[sy][CameraSerials[k]]
             own == IF ty = "absent" THEN <<>>
                    ELSE IF ty = "doorbell"
                           THEN <<Entity("CameraDoorbellBinarySensor", sy, CameraSerials[k])>>
                           ELSE <<Entity("CameraMotionBinarySensor", sy, CameraSerials[k])>>
         IN  own \o CameraSensorLoopElse(sy, k + 1)

\* binary_sensor.py lines 72-75: for cam in system.cameras.values(), from the
\* k-th on.
RECURSIVE CameraSensorLoop(_, _)
CameraSensorLoop(sy, k) ==
    IF k > Len(CameraSerials) THEN <<>>
    ELSE LET ty == sys_cameras[sy][CameraSerials[k]]
             own == IF ty = "absent" THEN <<>>
                    ELSE <<Entity("CameraMotionBinarySensor", sy, CameraSerials[k])>>
                         \o
                         (IF ty = "doorbell"
                            THEN <<Entity("CameraDoorbellBinarySensor", sy, CameraSerials[k])>>
                            ELSE <<>>)
         IN  own \o CameraSensorLoop(sy, k + 1)

\* A variant of the system loop with break in place of continue: the loop
\* ends at the first version 2 system.
RECURSIVE BinarySensorSystemLoopBreak(_)
BinarySensorSystemLoopBreak(sy) ==
    IF sy > NumSystems THEN <<>>
    ELSE IF sys_version[sy] = 2 THEN <<>>
    ELSE SensorLoop(sy, 1) \o CameraSensorLoop(sy, 1) \o BinarySensorSystemLoopBreak(sy + 1)

\* binary_sensor.py lines 54-75: for system in simplisafe.systems.values(),
\* from system sy on.
RECURSIVE BinarySensorSystemLoop(_)
BinarySensorSystemLoop(sy) ==
    IF sy > NumSystems THEN <<>>
    ELSE (IF sys_version[sy] = 2 THEN <<>>
          ELSE SensorLoop(sy, 1) \o CameraSensorLoop(sy, 1))
         \o BinarySensorSystemLoop(sy + 1)

\* camera.py lines 31-32: for cam in system.cameras.values(), from the k-th on.
RECURSIVE CameraLoop(_, _)
CameraLoop(sy, k) ==
    IF k > Len(CameraSerials) THEN <<>>
    ELSE (IF sys_cameras[sy][CameraSerials[k]] = "absent" THEN <<>>
          ELSE <<Entity("SimpliSafeCamera", sy, CameraSerials[k])>>)
         \o CameraLoop(sy, k + 1)

\* camera.py lines 26-32: for system in simplisafe.systems.values(), from
\* system sy on.
RECURSIVE CameraSystemLoop(_)
CameraSystemLoop(sy) ==
    IF sy > NumSystems THEN <<>>
    ELSE (IF sys_version[sy] = 2 THEN <<>> ELSE CameraLoop(sy, 1))
         \o CameraSystemLoop(sy + 1)

\* binary_sensor.async_setup_entry: no await in its body, one step.
BinarySensorSetup ==
    /\ bs_added = <<>>
    /\ bs_added' = <<BinarySensorSystemLoop(1)>>
    /\ UNCHANGED <<sys_version, sys_sensors, sys_cameras, cam_added, sensorVars,
                   cameraVars, streamVars, passVars, onStateVars>>

\* camera.async_setup_entry: no await in its body, one step.
CameraSetup ==
    /\ cam_added = <<>>
    /\ cam_added' = <<CameraSystemLoop(1)>>
    /\ UNCHANGED <<sys_version, sys_sensors, sys_cameras, bs_added, sensorVars,
                   cameraVars, streamVars, passVars, onStateVars>>

SetupNext ==
    \/ BinarySensorSetup
    \/ CameraSetup

\* An account with no device, as the specifications that leave setup alone
\* start it.
SetupAtRest ==
    /\ SetupInit
    /\ sys_version = [sy \in Systems |-> 3]
    /\ sys_sensors = [sy \in Systems |-> [x \in Range(SensorSerials) |-> "absent"]]
    /\ sys_cameras = [sy \in Systems |-> [x \in Range(CameraSerials) |-> "absent"]]

----------------------------------------------------------------------------
\* camera.py: the camera entity's on-state

Cameras == 1..NumCameras

\* The values self._device.status takes in the model.
StatusValues == {"online", "offline", "unknown"}

\* SimpliSafeCamera.__init__ lines 57-58: both flags are read from the device
\* record, which holds whatever the vendor API reported.
OnStateInit ==
    /\ dev_status \in [Cameras -> StatusValues]
    /\ dev_subscription \in [Cameras -> BOOLEAN]
    /\ _is_online = [c \in Cameras |-> dev_status[c] = "online"]
    /\ _is_subscribed = [c \in Cameras |-> dev_subscription[c]]
    /\ seen_status = dev_status
    /\ seen_subscription = dev_subscription

\* SimpliSafeCamera.is_on
camera_is_on(c) == _is_online[c] /\ _is_subscribed[c]

\* A variant of the refresh hook that leaves out the subscription flag.
camera_update_online_only(c) ==
    /\ _is_online' = [_is_online EXCEPT ![c] = dev_status[c] = "online"]
    /\ _is_subscribed' = _is_subscribed

\* SimpliSafeCamera.async_update_from_rest_api
camera_update_from_rest_api(c) ==
    /\ _is_online' = [_is_online EXCEPT ![c] = dev_status[c] = "online"]
    /\ _is_subscribed' = [_is_subscribed EXCEPT ![c] = dev_subscription[c]]

CameraRefresh(c) ==
    /\ camera_update_from_rest_api(c)
    /\ seen_status' = [seen_status EXCEPT ![c] = dev_status[c]]
    /\ seen_subscription' = [seen_subscription EXCEPT ![c] = dev_subscription[c]]
    /\ UNCHANGED <<dev_status, dev_subscription, sensorVars, cameraVars, streamVars,
                   passVars, setupVars>>

\* The vendor API updates a camera's record: its status or its subscription
\* changes.
CameraRecordChange(c) ==
    /\ \/ /\ \E st \in StatusValues :
                /\ st # dev_status[c]
                /\ dev_status' = [dev_status EXCEPT ![c] = st]
          /\ UNCHANGED dev_subscription
       \/ /\ dev_subscription' = [dev_subscription EXCEPT ![c] = ~@]
          /\ UNCHANGED dev_status
    /\ UNCHANGED <<_is_online, _is_subscribed, seen_status, seen_subscription,
                   sensorVars, cameraVars, streamVars, passVars, setupVars>>

OnStateNext ==
    \/ \E c \in Cameras : CameraRefresh(c)
    \/ \E c \in Cameras : CameraRecordChange(c)

\* Every camera online and subscribed, as the specifications that leave the
\* on-state alone start it.
OnStateAtRest ==
    /\ dev_status = [c \in Cameras |-> "online"]
    /\ dev_subscription = [c \in Cameras |-> TRUE]
    /\ _is_online = [c \in Cameras |-> dev_status[c] = "online"]
    /\ _is_subscribed = [c \in Cameras |-> dev_subscription[c]]
    /\ seen_status = dev_status
    /\ seen_subscription = dev_subscription

----------------------------------------------------------------------------
\* The camera disarmed with its shutter settings open, as the specifications
\* that leave the camera alone start it.
CameraAtRest ==
    /\ CameraInit
    /\ system_state = "off"
    /\ shutter_open_when_off /\ shutter_open_when_home /\ shutter_open_when_away

\* The transient sensors; nothing else takes a step.
Init ==
    /\ SensorInit
    /\ CameraAtRest
    /\ StreamInit
    /\ PassAtRest
    /\ SetupAtRest
    /\ OnStateAtRest

Spec == Init /\ [][SensorNext]_vars

\* One camera entity; the sensors play no part.
InitCamera == SensorInit /\ CameraInit /\ StreamInit /\ PassAtRest /\ SetupAtRest
    /\ OnStateAtRest

SpecCamera == InitCamera /\ [][CameraNext]_vars

\* Stream requests on one camera; nothing else takes a step.
InitStream == SensorInit /\ CameraAtRest /\ StreamInit /\ PassAtRest /\ SetupAtRest
    /\ OnStateAtRest

SpecStream == InitStream /\ [][StreamNext]_vars

\* The passthrough sensors; nothing else takes a step.
InitPass == SensorInit /\ CameraAtRest /\ StreamInit /\ PassInit /\ SetupAtRest
    /\ OnStateAtRest

SpecPass == InitPass /\ [][PassNext]_vars

\* Entity setup of one config entry; nothing else takes a step.
InitSetup == SensorInit /\ CameraAtRest /\ StreamInit /\ PassAtRest /\ SetupInit
    /\ OnStateAtRest

SpecSetup == InitSetup /\ [][SetupNext]_vars

\* The on-state of the camera entities; nothing else takes a step.
InitOnState ==
    SensorInit /\ CameraAtRest /\ StreamInit /\ PassAtRest /\ SetupAtRest
    /\ OnStateInit

SpecOnState == InitOnState /\ [][OnStateNext]_vars

----------------------------------------------------------------------------
\* Transient sensors: the claims, under Spec.

\* C1: right after a push event is handled the sensor's flag is true, and
\* whenever the flag is false after some event, at least CLEAR_DELAY has passed
\* since the last event that was handled while no clear timer was pending.
C1_ActiveHeldAfterEvent ==
    \A s \in Sensors :
       /\ last_op = <<"event", s>> => is_on[s]
       /\ handled[s] > 0 /\ ~is_on[s] => now >= armed_at[s] + CLEAR_DELAY

\* Two events handled, CLEAR_DELAY gone by since the first, the flag still true.
C1_Witness ==
    \E s \in Sensors :
       /\ handled[s] >= 2 /\ is_on[s]
       /\ armed_at[s] >= 0 /\ now >= armed_at[s] + CLEAR_DELAY

\* C2: handling a push event sets the flag and schedules a clear callback:
\* once an event has been handled, a clear is pending or has already run.
C2_EventSchedulesClear ==
    \A s \in Sensors :
       handled[s] > 0 => is_on[s] /\ (timers[s] # <<>> \/ fired[s] > 0)

\* C3: every handled event schedules its own clear and cancels none: the
\* clears pending plus the clears that ran equal the events handled, so n
\* events with no clear yet run leave n clears in flight.
C3_ClearsStack ==
    \A s \in Sensors : Len(timers[s]) + fired[s] = handled[s]

\* C4: the flag is true only if an event was handled within the last
\* CLEAR_DELAY or a clear callback is still pending.
C4_ActiveImpliesRecentOrPending ==
    \A s \in Sensors :
       is_on[s] =>
          \/ last_event[s] >= 0 /\ now - last_event[s] <= CLEAR_DELAY
          \/ timers[s] # <<>>

\* C5: every reachable state is IDLE (flag false, no clear timer pending) or
\* ACTIVE (flag true, a clear timer pending).
C5_IdleOrActive ==
    \A s \in Sensors :
       \/ ~is_on[s] /\ timers[s] = <<>>
       \/ is_on[s] /\ timers[s] # <<>>

\* C6: the flag starts false; a step takes it from true to false only by
\* running a clear callback; a REST refresh and a read of the on-state leave
\* the flag and the pending clear timers as they were.
C6_OnlyClearResets ==
    /\ \A s \in Sensors : ~is_on[s]
    /\ [][\A s \in Sensors :
            /\ is_on[s] /\ ~is_on'[s] => fired'[s] = fired[s] + 1
            /\ last_op' \in {<<"rest", s>>, <<"read", s>>}
                  => is_on' = is_on /\ timers' = timers]_vars

\* A REST refresh and a read that ran while the flag was true.
C6_Witness ==
    \E s \in Sensors :
       /\ last_op = <<"rest", s>> /\ is_on[s]
       /\ read_value[s] /\ handled[s] > 0

\* C7: every transition writes the state to the host as part of the
\* transition: between operations the host's state equals the flag.
C7_PublishedMatchesFlag ==
    \A s \in Sensors : ha_state[s] = is_on[s]

----------------------------------------------------------------------------
\* Camera: the claims, under SpecCamera.

\* The shutter as the arm state and the per-device flags give it.
ShutterByFlags ==
    CASE system_state = "off" -> shutter_open_when_off
      [] system_state = "home" -> shutter_open_when_home
      [] system_state = "away" -> shutter_open_when_away
      [] OTHER -> TRUE

\* A step in which call c starts.
Starts(c) == pc[c] = "idle" /\ pc'[c] # "idle"

\* C8: a fetch made while the shutter is closed starts no frame-grab, returns
\* the image cached at that moment (None when there is none) and leaves the
\* cache as it was.
C8_ClosedShutterServesCache ==
    [][\A c \in Calls :
         Starts(c) /\ ~ShutterByFlags =>
            /\ pc'[c] = "returned"
            /\ ret'[c] = _last_image
            /\ _last_image' = _last_image
            /\ \A d \in Calls : pc'[d] = "grabbing" => pc[d] = "grabbing"]_vars

\* A closed-shutter fetch that returned a frame cached by an earlier fetch.
C8_Witness ==
    \E c \in Calls : pc[c] = "returned" /\ ~shutter_seen[c] /\ ret[c] \in Images

\* C9: a fetch with the shutter open whose frame-grab delivers a frame returns
\* that frame and caches it; a closed-shutter fetch that follows the grab
\* returns the same frame.
C9_OpenShutterFetchCaches ==
    [][\A c \in Calls :
         /\ pc[c] = "grabbing" /\ pc'[c] = "returned" /\ got'[c] \in Images
               => ret'[c] = got'[c] /\ _last_image' = got'[c]
         /\ Starts(c) /\ pc'[c] = "returned" /\ last_grab \in Images
               => ret'[c] = last_grab]_vars

\* One call returned a freshly grabbed frame, and a closed-shutter call after
\* it returned the same frame.
C9_Witness ==
    \E c, d \in Calls :
       /\ pc[c] = "returned" /\ shutter_seen[c] /\ got[c] \in Images
       /\ ret[c] = got[c]
       /\ pc[d] = "returned" /\ ~shutter_seen[d] /\ ret[d] = got[c]

\* C10: a fetch computes the shutter as the flag of the current arm state for
\* off, home and away and as open for every other arm state, and goes on to
\* the frame-grab exactly when that is open; it never ends in an error there.
C10_ShutterFollowsArmState ==
    [][\A c \in Calls :
         Starts(c) =>
            /\ shutter_seen'[c] = ShutterByFlags
            /\ pc'[c] = (IF ShutterByFlags THEN "grabbing" ELSE "returned")]_vars

\* A fetch that went to the frame-grab in an arm state the flags do not name,
\* with every flag closed.
C10_Witness ==
    \E c \in Calls :
       /\ pc[c] = "grabbing" /\ shutter_seen[c]
       /\ system_state \in {"alarm", "unknown"}
       /\ ~shutter_open_when_off /\ ~shutter_open_when_home /\ ~shutter_open_when_away

----------------------------------------------------------------------------
\* Stream: the claims, under SpecStream.

\* C11: an invocation that opened a stream process closes it exactly once,
\* however the proxying ended: close is never called twice, a running process
\* has not been closed, and an invocation that is over and had opened a
\* process has closed it once and left it stopped.
C11_StreamReleasedOnce ==
    \A i \in Streams :
       /\ s_closes[i] <= 1
       /\ s_running[i] => s_closes[i] = 0
       /\ s_pc[i] \in {"returned", "raised"} /\ s_opened[i]
             => s_closes[i] = 1 /\ ~s_running[i]

\* Invocations that opened a process and ended by an exception mid-stream and
\* by a client disconnect, each closed once.
C11_Witness ==
    \E i, j \in Streams :
       /\ s_pc[i] = "raised" /\ s_how[i] = "error" /\ s_opened[i] /\ s_closes[i] = 1
       /\ s_pc[j] = "returned" /\ s_how[j] = "disconnect" /\ s_opened[j]
       /\ s_closes[j] = 1

----------------------------------------------------------------------------
\* Camera: further claims, under SpecCamera.

\* A step in which the frame-grab of call c ends in failure: the await raises,
\* or get_image hands back None, its result when ffmpeg did not start or
\* timed out.
GrabFails(c) ==
    /\ pc[c] = "grabbing"
    /\ \/ pc'[c] = "raised"
       \/ pc'[c] = "returned" /\ got'[c] = None

\* C12: when the frame-grab of an open-shutter fetch fails, the call ends
\* without starting another grab and the cached image is what it was before.
C12_FailedGrabKeepsCache ==
    [][\A c \in Calls :
         GrabFails(c) =>
            /\ _last_image' = _last_image
            /\ \A d \in Calls : pc'[d] = "grabbing" => pc[d] = "grabbing"]_vars

\* C16: with overlapping fetches the cache is written only by a frame-grab that
\* completes successfully: every step that changes the cache is the completion
\* of a grab that delivered a frame, and the cache then holds that frame.
C16_CacheWrittenOnlyOnSuccess ==
    [][_last_image' # _last_image =>
          \E c \in Calls :
             /\ pc[c] = "grabbing" /\ pc'[c] = "returned"
             /\ got'[c] \in Images /\ _last_image' = got'[c]]_vars

----------------------------------------------------------------------------
\* Passthrough sensors: the claims, under SpecPass.

\* C13: a REST refresh of a passthrough sensor leaves its on-state equal to
\* the boolean its device field holds at that moment (triggered for the
\* triggered sensor, low_battery for the battery sensor); every other step
\* leaves the on-state as the last refresh set it.
C13_RefreshMirrorsField ==
    [][\A d \in Devices :
         /\ p_last' = <<"rest", "triggered", d>> => t_is_on'[d] = <<dev_triggered[d]>>
         /\ p_last' # <<"rest", "triggered", d>> => t_is_on'[d] = t_is_on[d]
         /\ p_last' = <<"rest", "battery", d>> => b_is_on'[d] = <<dev_low_battery[d]>>
         /\ p_last' # <<"rest", "battery", d>> => b_is_on'[d] = b_is_on[d]]_vars

\* A battery sensor just refreshed to True from a record whose triggered field
\* is False, while the triggered sensor still shows the True of its own last
\* refresh.
C13_Witness ==
    \E d \in Devices :
       /\ p_last = <<"rest", "battery", d>>
       /\ dev_low_battery[d] /\ ~dev_triggered[d]
       /\ b_is_on[d] = <<TRUE>> /\ t_is_on[d] = <<TRUE>>

----------------------------------------------------------------------------
\* Entity setup: the claims, under SpecSetup.

\* How many entries of a list equal e.
Count(list, e) == Cardinality({i \in 1..Len(list) : list[i] = e})

\* How many entities of class cls binary_sensor setup added for a device.
Sensors_added(cls, sy, serial) == Count(bs_added[1], Entity(cls, sy, serial))

\* C14: setup adds no binary-sensor entity and no camera entity for a device of
\* a version 2 system, and still processes every other system: each of its
\* cameras gets its camera entity and its motion sensor, each of its sensors of
\* a battery-table type its battery sensor.
C14_LegacySystemsSkipped ==
    /\ bs_added # <<>> =>
          /\ \A i \in 1..Len(bs_added[1]) : sys_version[bs_added[1][i].system] # 2
          /\ \A sy \in Systems : sys_version[sy] # 2 =>
                /\ \A c \in Range(CameraSerials) : sys_cameras[sy][c] # "absent" =>
                      Sensors_added("CameraMotionBinarySensor", sy, c) >= 1
                /\ \A x \in Range(SensorSerials) :
                      sys_sensors[sy][x] \in SUPPORTED_BATTERY_SENSOR_TYPES =>
                         Sensors_added("BatteryBinarySensor", sy, x) >= 1
    /\ cam_added # <<>> =>
          /\ \A i \in 1..Len(cam_added[1]) : sys_version[cam_added[1][i].system] # 2
          /\ \A sy \in Systems : sys_version[sy] # 2 =>
                \A c \in Range(CameraSerials) : sys_cameras[sy][c] # "absent" =>
                   Count(cam_added[1], Entity("SimpliSafeCamera", sy, c)) >= 1

\* Both setups ran on an account whose first system is version 2 and has a
\* sensor and a camera, and whose second is not and has them too.
C14_Witness ==
    /\ bs_added # <<>> /\ cam_added # <<>>
    /\ sys_version[1] = 2 /\ sys_version[2] = 3
    /\ \A sy \in {1, 2} : sys_sensors[sy]["s1"] = "entry" /\ sys_cameras[sy]["c1"] = "camera"
    /\ Len(cam_added[1]) >= 1 /\ Len(bs_added[1]) >= 3

\* C15: for each system that is not version 2, setup adds exactly one motion
\* sensor per camera, exactly one doorbell sensor per camera of type doorbell,
\* and no doorbell sensor for a camera of another type.
C15_OneMotionPerCameraOneDoorbellPerDoorbell ==
    bs_added # <<>> =>
       \A sy \in Systems : sys_version[sy] # 2 =>
          \A c \in Range(CameraSerials) :
             /\ Sensors_added("CameraMotionBinarySensor", sy, c)
                   = (IF sys_cameras[sy][c] = "absent" THEN 0 ELSE 1)
             /\ Sensors_added("CameraDoorbellBinarySensor", sy, c)
                   = (IF sys_cameras[sy][c] = "doorbell" THEN 1 ELSE 0)

\* Setup ran on a system that has a doorbell and a plain camera.
C15_Witness ==
    /\ bs_added # <<>>
    /\ \E sy \in Systems :
          /\ sys_version[sy] # 2
          /\ sys_cameras[sy]["c1"] = "doorbell" /\ sys_cameras[sy]["c2"] = "camera"
          /\ Sensors_added("CameraDoorbellBinarySensor", sy, "c1") = 1
          /\ Sensors_added("CameraMotionBinarySensor", sy, "c2") = 1

\* C18: for each sensor of a system that is not version 2, setup adds a
\* triggered sensor exactly when its type is a key of TRIGGERED_SENSOR_TYPES
\* and, independently, a battery sensor exactly when its type is in
\* SUPPORTED_BATTERY_SENSOR_TYPES: two entities, one, or none.
C18_TriggeredAndBatteryIndependent ==
    bs_added # <<>> =>
       \A sy \in Systems : sys_version[sy] # 2 =>
          \A x \in Range(SensorSerials) :
             LET ty == sys_sensors[sy][x] IN
             /\ Sensors_added("TriggeredBinarySensor", sy, x)
                   = (IF ty \in DOMAIN TRIGGERED_SENSOR_TYPES THEN 1 ELSE 0)
             /\ Sensors_added("BatteryBinarySensor", sy, x)
                   = (IF ty \in SUPPORTED_BATTERY_SENSOR_TYPES THEN 1 ELSE 0)

\* Setup ran on one system whose sensor is of both tables (two entities) and
\* one whose sensor is of the battery table only (one entity).
C18_Witness ==
    /\ bs_added # <<>>
    /\ \E sy, sz \in Systems :
          /\ sys_version[sy] # 2 /\ sys_version[sz] # 2
          /\ sys_sensors[sy]["s1"] = "entry" /\ sys_sensors[sz]["s1"] = "keypad"
          /\ Sensors_added("TriggeredBinarySensor", sy, "s1") = 1
          /\ Sensors_added("BatteryBinarySensor", sy, "s1") = 1
          /\ Sensors_added("TriggeredBinarySensor", sz, "s1") = 0
          /\ Sensors_added("BatteryBinarySensor", sz, "s1") = 1

----------------------------------------------------------------------------
\* Camera on-state: the claims, under SpecOnState.

\* C17: is_on equals (status = "online") and subscription_enabled as the
\* device record held them when the entity was constructed or last refreshed,
\* whichever is later; a change of the record since then does not show.
C17_IsOnFromLastRefresh ==
    \A c \in Cameras :
       camera_is_on(c) <=> (seen_status[c] = "online" /\ seen_subscription[c])

\* One camera is on although its record has since gone offline and
\* unsubscribed, and another is off although its record has since come online
\* and subscribed: neither has been refreshed since the change.
C17_Witness ==
    \E c, d \in Cameras :
       /\ camera_is_on(c)
       /\ dev_status[c] = "offline" /\ ~dev_subscription[c]
       /\ ~camera_is_on(d)
       /\ dev_status[d] = "online" /\ dev_subscription[d]

====
